---- MODULE Spec2Model ----
(***************************************************************************)
(* Model of the grading orchestration of src/App.tsx (GradingProvider):    *)
(* the document store `files`, the busy flag `isGrading`, and the async    *)
(* operations addFiles, removeFile, startBatchGrading and reGradeFile.     *)
(* Every async operation is split at its awaits: one action per            *)
(* continuation, each running to the next await as the event loop does.    *)
(* setFiles(prev => ...) updaters are applied to the current collection.   *)
(* A handler called from the UI reads the `files` of the latest render,    *)
(* so a call reads the collection as it is when the call is made.          *)
(***************************************************************************)
EXTENDS Integers, Sequences, FiniteSets, TLC

\* ---- bounds of the model ------------------------------------------------
MaxFiles == 3      \* items created over a run
MaxInputs == 2     \* inputs handed to one addFiles call
MaxTasks == 2      \* async calls (addFiles, startBatchGrading, reGradeFile) awaiting at the same time
LiveFiles == 2     \* items created over a run of SpecLive

\* ---- FileStatus (src/types.ts) -------------------------------------------
PENDING == "Pending"
PROCESSING == "Processing"
COMPLETED == "Graded"
ERROR == "Error"
FileStatus == {PENDING, PROCESSING, COMPLETED, ERROR}

\* the JavaScript value undefined (an optional field that is not set)
undefined == "undefined"

\* ---- inputs ---------------------------------------------------------------
\* File objects handed to addFiles; a name is its sequence of characters.
InputFiles ==
  { [name |-> <<"a", ".">>, type |-> "image/png", size |-> 2],
    [name |-> <<".", "a">>, type |-> "text/plain", size |-> 1] }

RECURSIVE SeqsUpTo(_, _)
SeqsUpTo(S, n) ==
  IF n = 0 THEN {<<>>}
  ELSE LET shorter == SeqsUpTo(S, n - 1)
       IN shorter \cup {Append(s, x) : s \in {t \in shorter : Len(t) = n - 1}, x \in S}

\* the arguments addFiles is called with
InputSeqs == SeqsUpTo(InputFiles, MaxInputs)

\* GradingResult values and failures the Grading Invoker can produce
GradingResults == {"score90"}
ErrorMessages == {"rate limited"}
\* outcome of one gradeHomework call: resolved with a result, rejected with
\* an Error instance carrying a message, or rejected with a non-Error value
InvokerOutcomes ==
  [kind : {"ok"}, value : GradingResults]
    \cup [kind : {"error"}, value : ErrorMessages]
    \cup [kind : {"thrown"}, value : {undefined}]
NoOutcome == [kind |-> "none", value |-> undefined]

\* ---- configuration (src/types.ts, src/constants.ts) -----------------------
GEMINI == "Gemini"
CUSTOM == "Custom / OpenAI Compatible"
ModelProvider == {GEMINI, CUSTOM}

SiliconFlowUrl == "https://api.siliconflow.cn/v1"
DashScopeUrl == "https://dashscope.aliyuncs.com/compatible-mode/v1"

DEFAULT_RUBRIC == "default rubric"
DEFAULT_SETTINGS ==
  [apiKey |-> "", modelProvider |-> GEMINI, customBaseUrl |-> SiliconFlowUrl,
   modelName |-> "gemini-2.5-flash"]

AVAILABLE_MODELS ==
  << [value |-> "gemini-2.5-flash", provider |-> GEMINI, defaultBaseUrl |-> undefined],
     [value |-> "gemini-2.5-pro-preview", provider |-> GEMINI, defaultBaseUrl |-> undefined],
     [value |-> "qwen-plus", provider |-> CUSTOM, defaultBaseUrl |-> DashScopeUrl],
     [value |-> "qwen-vl-max", provider |-> CUSTOM, defaultBaseUrl |-> DashScopeUrl],
     [value |-> "deepseek-ai/DeepSeek-V3", provider |-> CUSTOM, defaultBaseUrl |-> SiliconFlowUrl],
     [value |-> "Qwen/Qwen2.5-VL-72B-Instruct", provider |-> CUSTOM,
      defaultBaseUrl |-> SiliconFlowUrl] >>

\* texts typed into the rubric editor, the API key field and the base URL field
RubricTexts == {DEFAULT_RUBRIC, "rubric B", ""}
ApiKeyTexts == {"", "sk-1", "sk-2"}
BaseUrlTexts == {SiliconFlowUrl, "http://localhost/v1"}

VARIABLES
  files,      \* useState<HomeworkFile[]>: the ordered collection
  isGrading,  \* useState(false): the busy flag
  nextId,     \* ids handed out so far, plus one: in Spec an id drawn by Math.random
              \* is taken to differ from every id drawn before (SpecIds does not)
  adds,       \* the addFiles calls in progress
  batches,    \* the startBatchGrading calls in progress, in call order
  regrades,   \* per id, the reGradeFile calls in progress (awaiting gradeHomework)
  unhandled,  \* async calls that ended with a rejected promise
  given,      \* history: inputs handed to addFiles whose name has no leading '.'
  removed,    \* history: removeFile has been called
  rubric,     \* useState<string>(DEFAULT_RUBRIC)
  settings,   \* useState<AppSettings>(DEFAULT_SETTINGS)
  last        \* history: the grading call, gradeHomework outcome or batch step that led
              \* to this state, with the status a regraded item had before the call

vars == <<files, isGrading, nextId, adds, batches, regrades, unhandled, given, removed,
          rubric, settings, last>>

\* ---- pure helpers ---------------------------------------------------------
\* String.prototype.startsWith for a one-character search string
startsWith(name, c) == Len(name) >= 1 /\ name[1] = c

\* mutant of validFiles: drops every name that contains a '.'
validFilesNoDot(newFiles) ==
  SelectSeq(newFiles, LAMBDA f : \A k \in 1..Len(f.name) : f.name[k] # ".")

\* newFiles.filter(f => !f.name.startsWith('.'))
validFiles(newFiles) == SelectSeq(newFiles, LAMBDA f : ~startsWith(f.name, "."))

\* services/fileService: optional base64 encoding of an input
readFileAsBase64(f) == "base64"

\* services/fileService: optional plain text of an input (absent for images)
extractTextFromFile(f) == IF f.type = "text/plain" THEN "text" ELSE undefined

\* services/fileService: what the awaited calls can resolve with for input f;
\* a failed extraction does not reject, it resolves with no value
Base64Outcomes(f) == {readFileAsBase64(f), undefined}
TextOutcomes(f) == {extractTextFromFile(f), undefined}

\* mutant of NewFile: an item whose content could not be read starts as Error
NewFileErrorOnAbsent(id, f, b64, text) ==
  [id |-> id, name |-> f.name, type |-> f.type, size |-> f.size,
   status |-> IF b64 = undefined THEN ERROR ELSE PENDING,
   base64Data |-> b64, textContent |-> text,
   result |-> undefined, errorMessage |-> undefined]

\* mutant of NewFile: a new item starts as Processing
NewFileProcessing(id, f, b64, text) ==
  [id |-> id, name |-> f.name, type |-> f.type, size |-> f.size,
   status |-> PROCESSING, base64Data |-> b64, textContent |-> text,
   result |-> undefined, errorMessage |-> undefined]

\* the object literal pushed by addFiles
NewFile(id, f, b64, text) ==
  [id |-> id, name |-> f.name, type |-> f.type, size |-> f.size,
   status |-> PENDING, base64Data |-> b64, textContent |-> text,
   result |-> undefined, errorMessage |-> undefined]

\* mutant of updateFileStatus: an argument left out keeps the item's old field
updateFileStatusKeep(prev, id, status, result, error) ==
  [i \in 1..Len(prev) |->
     IF prev[i].id = id
     THEN [prev[i] EXCEPT !.status = status,
                          !.result = IF result = undefined THEN @ ELSE result,
                          !.errorMessage = IF error = undefined THEN @ ELSE error]
     ELSE prev[i]]

\* mutant of updateFileStatus: the id test is lost, every item is updated
updateFileStatusAll(prev, id, status, result, error) ==
  [i \in 1..Len(prev) |->
     [prev[i] EXCEPT !.status = status, !.result = result, !.errorMessage = error]]

\* mutant of updateFileStatus: {...f, status}, result and errorMessage stay
updateFileStatusOnly(prev, id, status, result, error) ==
  [i \in 1..Len(prev) |-> IF prev[i].id = id THEN [prev[i] EXCEPT !.status = status] ELSE prev[i]]

\* mutant of updateFileStatus: the updated item is taken out and put last,
\* [...prev.filter(f => f.id !== id), updated]
updateFileStatusMoveLast(prev, id, status, result, error) ==
  SelectSeq(prev, LAMBDA f : f.id # id)
    \o [i \in 1..Len(SelectSeq(prev, LAMBDA f : f.id = id)) |->
          [SelectSeq(prev, LAMBDA f : f.id = id)[i]
             EXCEPT !.status = status, !.result = result, !.errorMessage = error]]

\* updateFileStatus: prev.map(f => f.id === id ? {...f, status, result, errorMessage: error} : f)
updateFileStatus(prev, id, status, result, error) ==
  [i \in 1..Len(prev) |->
     IF prev[i].id = id
     THEN [prev[i] EXCEPT !.status = status, !.result = result, !.errorMessage = error]
     ELSE prev[i]]

\* mutant of removeFromFiles: prev.splice(prev.findIndex(f => f.id === id), 1),
\* which drops the last item when no item has the id (findIndex gives -1)
removeFromFilesSplice(prev, id) ==
  LET hits == {j \in 1..Len(prev) : prev[j].id = id}
      k == IF hits = {} THEN Len(prev) ELSE CHOOSE j \in hits : \A h \in hits : j <= h
  IN [i \in 1..(IF prev = <<>> THEN 0 ELSE Len(prev) - 1) |-> IF i < k THEN prev[i] ELSE prev[i + 1]]

\* mutant of appendFiles: setFiles(processedFiles), the collection is replaced
appendFilesOverwrite(prev, processedFiles) == processedFiles

\* the updater of addFiles: prev => [...prev, ...processedFiles]
appendFiles(prev, processedFiles) == prev \o processedFiles

\* prev.filter(f => f.id !== id)
removeFromFiles(prev, id) == SelectSeq(prev, LAMBDA f : f.id # id)

\* mutant of filesToGrade: everything that is not being processed
filesToGradeNotProcessing(fs) == SelectSeq(fs, LAMBDA f : f.status # PROCESSING)

\* files.filter(f => f.status === PENDING || f.status === ERROR)
filesToGrade(fs) == SelectSeq(fs, LAMBDA f : f.status = PENDING \/ f.status = ERROR)

\* mutant of findFile: an id that is not found yields a stub item
findFileOrStub(fs, id) ==
  IF \E i \in 1..Len(fs) : fs[i].id = id
  THEN {fs[i] : i \in {j \in 1..Len(fs) : fs[j].id = id /\ \A k \in 1..(j - 1) : fs[k].id # id}}
  ELSE {[id |-> id, status |-> PENDING]}

\* files.find(f => f.id === id): the first item with that id, as a set that
\* is empty when find returns undefined
findFile(fs, id) ==
  {fs[i] : i \in {j \in 1..Len(fs) : fs[j].id = id /\ \A k \in 1..(j - 1) : fs[k].id # id}}

IdsOf(fs) == [i \in 1..Len(fs) |-> fs[i].id]

\* mutant of errorMessageOf: the message of the error is dropped
errorMessageOfUnknown(o) == "Unknown error"

\* error instanceof Error ? error.message : "Unknown error"
errorMessageOf(o) == IF o.kind = "error" THEN o.value ELSE "Unknown error"

\* mutant of caught: only Error instances are handled, the rest is rethrown
caughtErrorsOnly(o) == o.kind = "error"

\* mutant of caught: no catch clause, every rejection leaves the function
caughtNothing(o) == FALSE

\* the catch clause `catch (error)` takes every rejection of the try block
caught(o) == o.kind \in {"error", "thrown"}

\* mutant of settle: an empty catch block
settleNoCatch(prev, id, o) ==
  IF o.kind = "ok" THEN updateFileStatus(prev, id, COMPLETED, o.value, undefined) ELSE prev

\* the try/catch around gradeHomework: the status update that follows the call
settle(prev, id, o) ==
  IF o.kind = "ok" THEN updateFileStatus(prev, id, COMPLETED, o.value, undefined)
  ELSE IF caught(o) THEN updateFileStatus(prev, id, ERROR, undefined, errorMessageOf(o))
  ELSE prev

\* mutant of afterTry: the error is rethrown after the Error update
afterTryAbort(o) == IF o.kind = "ok" THEN "continue" ELSE "rejected"

\* the async function goes on after the try/catch unless the rejection escaped
afterTry(o) == IF o.kind = "ok" \/ caught(o) THEN "continue" ELSE "rejected"

\* the sequence s without its k-th element
RemoveAt(s, k) == [i \in 1..(Len(s) - 1) |-> IF i < k THEN s[i] ELSE s[i + 1]]

RECURSIVE SumOver(_, _)
SumOver(f, S) == IF S = {} THEN 0 ELSE LET x == CHOOSE y \in S : TRUE IN f[x] + SumOver(f, S \ {x})

\* reGradeFile calls in progress, over all ids
RegradesInFlight == SumOver(regrades, DOMAIN regrades)

\* async calls that are awaiting
TasksAwaiting == Cardinality(adds) + Len(batches) + RegradesInFlight

\* history kept by a batch while no removeFile, reGradeFile or other
\* startBatchGrading is interleaved with it: `clean`, and `outcomes`, the
\* outcomes of its gradeHomework calls so far; an interleaved call ends both
Disturb(bs) == [b \in 1..Len(bs) |-> [bs[b] EXCEPT !.clean = FALSE, !.outcomes = <<>>]]

NoBatch ==
  [eligible |-> <<>>, idx |-> 0, pc |-> "none", outcomes |-> <<>>, clean |-> FALSE,
   rubric |-> DEFAULT_RUBRIC, settings |-> DEFAULT_SETTINGS]
NoEvent == [op |-> "none", id |-> 0, before |-> "none", outcome |-> NoOutcome, batch |-> NoBatch]

\* ---- initial state --------------------------------------------------------
Init ==
  /\ files = <<>>
  /\ isGrading = FALSE
  /\ nextId = 1
  /\ adds = {}
  /\ batches = <<>>
  /\ regrades = [id \in 1..MaxFiles |-> 0]
  /\ unhandled = 0
  /\ given = 0
  /\ removed = FALSE
  /\ rubric = DEFAULT_RUBRIC
  /\ settings = DEFAULT_SETTINGS
  /\ last = NoEvent

\* ---- addFiles -------------------------------------------------------------
\* the call up to its first await: filter, then the first object literal is
\* evaluated up to `await readFileAsBase64(f)`; id is the value that
\* Math.random().toString(36).substr(2, 9) gives for it
addFiles(newFiles, id) ==
  /\ LET v == validFiles(newFiles)
         n == Cardinality({i \in 1..Len(newFiles) : newFiles[i].name[1] # "."})
     IN
     /\ v # <<>> => TasksAwaiting < MaxTasks
     /\ given + n <= MaxFiles
     /\ given' = given + n
     /\ IF v = <<>>
        THEN /\ adds' = adds
             /\ files' = files \o <<>>
             /\ nextId' = nextId
        ELSE /\ adds' = adds \cup {[newFiles |-> newFiles, valid |-> v, idx |-> 1, pc |-> "base64", curId |-> id,
                                    curB64 |-> undefined, processedFiles |-> <<>>]}
             /\ files' = files
             /\ nextId' = nextId + 1
  /\ last' = NoEvent
  /\ UNCHANGED <<isGrading, batches, regrades, unhandled, removed, rubric, settings>>

\* readFileAsBase64 resolved with b64; extractTextFromFile is awaited next
addFilesBase64(a, b64) ==
  /\ a.pc = "base64"
  /\ adds' = (adds \ {a}) \cup {[a EXCEPT !.curB64 = b64, !.pc = "text"]}
  /\ last' = NoEvent
  /\ UNCHANGED <<files, isGrading, nextId, batches, regrades, unhandled, given, removed, rubric, settings>>

\* extractTextFromFile resolved with text: push the item, then either the
\* next iteration up to its first await (id is the id drawn for the next
\* item), or setFiles(prev => [...prev, ...processedFiles])
addFilesText(a, text, id) ==
  /\ a.pc = "text"
  /\ LET f == a.valid[a.idx]
         pushed == Append(a.processedFiles, NewFile(a.curId, f, a.curB64, text))
     IN IF a.idx < Len(a.valid)
        THEN /\ adds' = (adds \ {a}) \cup {[a EXCEPT !.processedFiles = pushed, !.idx = a.idx + 1,
                                                     !.curId = id, !.curB64 = undefined,
                                                     !.pc = "base64"]}
             /\ nextId' = nextId + 1
             /\ files' = files
             /\ last' = NoEvent
        ELSE /\ adds' = adds \ {a}
             /\ nextId' = nextId
             /\ files' = appendFiles(files, pushed)
             /\ last' = NoEvent
  /\ UNCHANGED <<isGrading, batches, regrades, unhandled, given, removed, rubric, settings>>

\* ---- removeFile -----------------------------------------------------------
removeFile(id) ==
  /\ files' = removeFromFiles(files, id)
  /\ removed' = TRUE
  /\ batches' = Disturb(batches)
  /\ last' = NoEvent
  /\ UNCHANGED <<isGrading, nextId, adds, regrades, unhandled, given, rubric, settings>>

\* ---- startBatchGrading ----------------------------------------------------
\* mutant of startBatchGrading: every eligible item is set to Processing
\* before the first gradeHomework call, as a loop without await would do
startBatchGradingAllAtOnce ==
  /\ LET toGrade == IdsOf(filesToGrade(files))
         clean == batches = <<>> /\ RegradesInFlight = 0
     IN /\ toGrade # <<>> => TasksAwaiting < MaxTasks
        /\ IF toGrade = <<>>
           THEN /\ batches' = Disturb(batches)
                /\ files' = files
                /\ isGrading' = FALSE
                /\ last' = [NoEvent EXCEPT !.op = "startBatchGrading",
                              !.batch = [eligible |-> toGrade, idx |-> 0, pc |-> "done",
                                         outcomes |-> <<>>, clean |-> clean,
                                         rubric |-> rubric, settings |-> settings]]
           ELSE LET t == [eligible |-> toGrade, idx |-> 1, pc |-> "timer",
                          outcomes |-> <<>>, clean |-> clean,
                          rubric |-> rubric, settings |-> settings]
                IN /\ batches' = Append(Disturb(batches), t)
                   /\ files' = [i \in 1..Len(files) |->
                                  IF files[i].status \in {PENDING, ERROR}
                                  THEN [files[i] EXCEPT !.status = PROCESSING,
                                                        !.result = undefined,
                                                        !.errorMessage = undefined]
                                  ELSE files[i]]
                   /\ isGrading' = TRUE
                   /\ last' = [NoEvent EXCEPT !.op = "startBatchGrading", !.batch = t]
  /\ UNCHANGED <<nextId, adds, regrades, unhandled, given, removed, rubric, settings>>

\* the call up to its first await: setIsGrading(true), the snapshot, and the
\* first iteration's Processing update; with nothing to grade the loop is
\* skipped and setIsGrading(false) follows in the same run. The function is a
\* closure of the render in which it was created: `rubric` and `settings` in
\* its body are that render's values for as long as the call runs, so the
\* call's record keeps them.
startBatchGrading ==
  /\ LET toGrade == IdsOf(filesToGrade(files))
         clean == batches = <<>> /\ RegradesInFlight = 0
     IN /\ toGrade # <<>> => TasksAwaiting < MaxTasks
        /\ IF toGrade = <<>>
           THEN /\ batches' = Disturb(batches)
                /\ files' = files
                /\ isGrading' = FALSE
                /\ last' = [NoEvent EXCEPT !.op = "startBatchGrading",
                              !.batch = [eligible |-> toGrade, idx |-> 0, pc |-> "done",
                                         outcomes |-> <<>>, clean |-> clean,
                                         rubric |-> rubric, settings |-> settings]]
           ELSE LET t == [eligible |-> toGrade, idx |-> 1, pc |-> "timer",
                          outcomes |-> <<>>, clean |-> clean,
                          rubric |-> rubric, settings |-> settings]
                IN /\ batches' = Append(Disturb(batches), t)
                   /\ files' = updateFileStatus(files, toGrade[1], PROCESSING,
                                                undefined, undefined)
                   /\ isGrading' = TRUE
                   /\ last' = [NoEvent EXCEPT !.op = "startBatchGrading", !.batch = t]
  /\ UNCHANGED <<nextId, adds, regrades, unhandled, given, removed, rubric, settings>>

\* the 500 ms timer fired: gradeHomework(file, rubric, settings) is called
\* with the rubric and settings of the call's closure
batchTimer(b) ==
  /\ batches[b].pc = "timer"
  /\ batches' = [batches EXCEPT ![b].pc = "invoke"]
  /\ last' = NoEvent
  /\ UNCHANGED <<files, isGrading, nextId, adds, regrades, unhandled, given, removed, rubric, settings>>

\* gradeHomework settled with outcome o: the Completed/Error update, then the
\* next iteration up to its await, or setIsGrading(false) after the last one
batchReturn(b, o) ==
  /\ batches[b].pc = "invoke"
  /\ LET t == batches[b]
         id == t.eligible[t.idx]
         settled == settle(files, id, o)
         outs == IF t.clean THEN Append(t.outcomes, o) ELSE <<>>
         ev == [NoEvent EXCEPT !.op = "batchReturn", !.id = id, !.outcome = o]
     IN IF afterTry(o) = "rejected"
        THEN /\ batches' = RemoveAt(batches, b)
             /\ files' = settled
             /\ isGrading' = isGrading
             /\ unhandled' = unhandled + 1
             /\ last' = [ev EXCEPT !.batch = [t EXCEPT !.pc = "rejected", !.outcomes = outs]]
        ELSE IF t.idx < Len(t.eligible)
        THEN LET u == [t EXCEPT !.idx = t.idx + 1, !.pc = "timer", !.outcomes = outs]
             IN /\ batches' = [batches EXCEPT ![b] = u]
                /\ files' = updateFileStatus(settled, t.eligible[t.idx + 1], PROCESSING,
                                             undefined, undefined)
                /\ isGrading' = isGrading
                /\ unhandled' = unhandled
                /\ last' = [ev EXCEPT !.batch = u]
        ELSE /\ batches' = RemoveAt(batches, b)
             /\ files' = settled
             /\ isGrading' = FALSE
             /\ unhandled' = unhandled
             /\ last' = [ev EXCEPT !.batch = [t EXCEPT !.pc = "done", !.outcomes = outs]]
  /\ UNCHANGED <<nextId, adds, regrades, given, removed, rubric, settings>>

\* ---- reGradeFile ----------------------------------------------------------
\* the call up to its await: the lookup, the Processing update and the call
\* of gradeHomework
reGradeFile(id) ==
  /\ findFile(files, id) # {} => TasksAwaiting < MaxTasks
  /\ IF findFile(files, id) # {}
     THEN /\ files' = updateFileStatus(files, id, PROCESSING, undefined, undefined)
          /\ regrades' = [regrades EXCEPT ![id] = @ + 1]
          /\ batches' = Disturb(batches)
          /\ last' = [NoEvent EXCEPT !.op = "reGradeFile", !.id = id,
                                     !.before = (CHOOSE f \in findFile(files, id) : TRUE).status]
     ELSE /\ files' = files
          /\ regrades' = regrades
          /\ batches' = batches
          /\ last' = NoEvent
  /\ UNCHANGED <<isGrading, nextId, adds, unhandled, given, removed, rubric, settings>>

\* gradeHomework settled with outcome o
reGradeReturn(id, o) ==
  /\ regrades[id] > 0
  /\ files' = settle(files, id, o)
  /\ regrades' = [regrades EXCEPT ![id] = @ - 1]
  /\ unhandled' = IF afterTry(o) = "rejected" THEN unhandled + 1 ELSE unhandled
  /\ last' = [NoEvent EXCEPT !.op = "reGradeReturn", !.id = id, !.outcome = o]
  /\ UNCHANGED <<isGrading, nextId, adds, batches, given, removed, rubric, settings>>

\* ---- specification --------------------------------------------------------
Next ==
  \/ \E newFiles \in InputSeqs : addFiles(newFiles, nextId)
  \/ \E a \in adds : addFilesBase64(a, readFileAsBase64(a.valid[a.idx]))
  \/ \E a \in adds : addFilesText(a, extractTextFromFile(a.valid[a.idx]), nextId)
  \/ \E id \in 1..MaxFiles : removeFile(id)
  \/ startBatchGrading
  \/ \E b \in 1..Len(batches) : batchTimer(b)
  \/ \E b \in 1..Len(batches), o \in InvokerOutcomes : batchReturn(b, o)
  \/ \E id \in 1..MaxFiles : reGradeFile(id)
  \/ \E id \in 1..MaxFiles, o \in InvokerOutcomes : reGradeReturn(id, o)

Spec == Init /\ [][Next]_vars

\* ---- the awaited calls come back -------------------------------------------
\* a timer that was set fires, and a gradeHomework call that was made settles:
\* the continuation of each awaiting call is run by the event loop
Fairness ==
  /\ \A b \in 1..MaxTasks :
       /\ WF_vars(b <= Len(batches) /\ batchTimer(b))
       /\ WF_vars(b <= Len(batches) /\ \E o \in InvokerOutcomes : batchReturn(b, o))
  /\ \A id \in 1..MaxFiles : WF_vars(\E o \in InvokerOutcomes : reGradeReturn(id, o))

\* every operation of the provider, over runs that create LiveFiles items
LiveNext ==
  \/ \E newFiles \in InputSeqs :
       /\ given + Len(validFiles(newFiles)) <= LiveFiles
       /\ addFiles(newFiles, nextId)
  \/ \E a \in adds : addFilesBase64(a, readFileAsBase64(a.valid[a.idx]))
  \/ \E a \in adds : addFilesText(a, extractTextFromFile(a.valid[a.idx]), nextId)
  \/ \E id \in 1..MaxFiles : removeFile(id)
  \/ startBatchGrading
  \/ \E b \in 1..Len(batches) : batchTimer(b)
  \/ \E b \in 1..Len(batches), o \in InvokerOutcomes : batchReturn(b, o)
  \/ \E id \in 1..MaxFiles : reGradeFile(id)
  \/ \E id \in 1..MaxFiles, o \in InvokerOutcomes : reGradeReturn(id, o)

SpecLive == Init /\ [][LiveNext]_vars /\ Fairness

\* ---- the operations behind the guards of the views -------------------------
\* Dashboard: files.filter(f => f.status === FileStatus.PENDING).length
pending == Len(SelectSeq(files, LAMBDA f : f.status = PENDING))

\* mutant of startDisabled: disabled={pending === 0}
startDisabledNoPending == pending = 0

\* the start button of Dashboard: disabled={isGrading || pending === 0}
startDisabled == isGrading \/ pending = 0

\* the regrade button of a row of ResultsView:
\* disabled={file.status === FileStatus.PROCESSING}
regradeDisabled(file) == file.status = PROCESSING

\* startBatchGrading and reGradeFile called by clicks on buttons that are
\* not disabled; every row of ResultsView has a regrade button
UINext ==
  \/ \E newFiles \in InputSeqs : addFiles(newFiles, nextId)
  \/ \E a \in adds : addFilesBase64(a, readFileAsBase64(a.valid[a.idx]))
  \/ \E a \in adds : addFilesText(a, extractTextFromFile(a.valid[a.idx]), nextId)
  \/ \E id \in 1..MaxFiles : removeFile(id)
  \/ (~startDisabled /\ startBatchGrading)
  \/ \E b \in 1..Len(batches) : batchTimer(b)
  \/ \E b \in 1..Len(batches), o \in InvokerOutcomes : batchReturn(b, o)
  \/ \E i \in 1..Len(files) : (~regradeDisabled(files[i]) /\ reGradeFile(files[i].id))
  \/ \E id \in 1..MaxFiles, o \in InvokerOutcomes : reGradeReturn(id, o)

SpecUI == Init /\ [][UINext]_vars

\* ---- rubric and settings (GradingProvider, RubricEditor, SettingsView) ----
\* { ...prev, ...newSettings }: the keys of newSettings replace those of prev
mergeSettings(prev, newSettings) ==
  [k \in DOMAIN prev |-> IF k \in DOMAIN newSettings THEN newSettings[k] ELSE prev[k]]

\* setRubric(e.target.value)
setRubric(text) ==
  /\ rubric' = text
  /\ last' = NoEvent
  /\ UNCHANGED <<files, isGrading, nextId, adds, batches, regrades, unhandled, given, removed,
                 settings>>

\* updateSettings: setSettings(prev => ({ ...prev, ...newSettings }))
updateSettings(newSettings) ==
  /\ settings' = mergeSettings(settings, newSettings)
  /\ last' = NoEvent
  /\ UNCHANGED <<files, isGrading, nextId, adds, batches, regrades, unhandled, given, removed,
                 rubric>>

\* AVAILABLE_MODELS.filter(m => m.provider === provider)
modelsFor(provider) == SelectSeq(AVAILABLE_MODELS, LAMBDA m : m.provider = provider)

\* the options of the model select of SettingsView
filteredModels == modelsFor(settings.modelProvider)

\* mutant of providerUpdates: only the provider is replaced
providerUpdatesOnly(provider) == [modelProvider |-> provider]

\* the object handleProviderChange hands to updateSettings
providerUpdates(provider) ==
  LET modelsForProvider == modelsFor(provider)
  IN IF Len(modelsForProvider) > 0
     THEN LET firstModel == modelsForProvider[1]
          IN [modelProvider |-> provider,
              modelName |-> firstModel.value,
              customBaseUrl |-> IF firstModel.defaultBaseUrl # undefined
                                THEN firstModel.defaultBaseUrl ELSE settings.customBaseUrl]
     ELSE [modelProvider |-> provider]

\* a provider radio button was chosen
handleProviderChange(provider) == updateSettings(providerUpdates(provider))

\* the object handleModelChange hands to updateSettings
modelUpdates(modelValue) ==
  LET found == {k \in 1..Len(AVAILABLE_MODELS) : AVAILABLE_MODELS[k].value = modelValue}
  IN IF \E k \in found : AVAILABLE_MODELS[k].defaultBaseUrl # undefined
     THEN [modelName |-> modelValue,
           customBaseUrl |-> AVAILABLE_MODELS[CHOOSE k \in found : \A h \in found : k <= h].defaultBaseUrl]
     ELSE [modelName |-> modelValue]

\* an option of the model select was chosen
handleModelChange(modelValue) == updateSettings(modelUpdates(modelValue))

\* the API key field and the base URL field, shown for the custom provider
typeApiKey(text) ==
  /\ settings.modelProvider = CUSTOM
  /\ updateSettings([apiKey |-> text])

typeBaseUrl(text) ==
  /\ settings.modelProvider = CUSTOM
  /\ updateSettings([customBaseUrl |-> text])

\* the settings page and the rubric editor on their own
SettingsNext ==
  \/ \E provider \in ModelProvider : handleProviderChange(provider)
  \/ \E k \in 1..Len(filteredModels) : handleModelChange(filteredModels[k].value)
  \/ \E text \in ApiKeyTexts : typeApiKey(text)
  \/ \E text \in BaseUrlTexts : typeBaseUrl(text)
  \/ \E text \in RubricTexts : setRubric(text)

SpecSettings == Init /\ [][SettingsNext]_vars

\* batches while the rubric and the API key are edited
RubricNext ==
  \/ \E newFiles \in InputSeqs : addFiles(newFiles, nextId)
  \/ \E a \in adds : addFilesBase64(a, readFileAsBase64(a.valid[a.idx]))
  \/ \E a \in adds : addFilesText(a, extractTextFromFile(a.valid[a.idx]), nextId)
  \/ startBatchGrading
  \/ \E b \in 1..Len(batches) : batchTimer(b)
  \/ \E b \in 1..Len(batches), o \in InvokerOutcomes : batchReturn(b, o)
  \/ \E text \in {DEFAULT_RUBRIC, "rubric B"} : setRubric(text)

SpecRubric == Init /\ [][RubricNext]_vars

\* ---- addFiles with inputs whose content cannot be extracted ---------------
\* the inputs of Spec and a text file with a plain name
AddInputFiles == InputFiles \cup {[name |-> <<"b">>, type |-> "text/plain", size |-> 3]}

AddNext ==
  \/ \E newFiles \in SeqsUpTo(AddInputFiles, MaxInputs) : addFiles(newFiles, nextId)
  \/ \E a \in adds : \E b64 \in Base64Outcomes(a.valid[a.idx]) : addFilesBase64(a, b64)
  \/ \E a \in adds : \E text \in TextOutcomes(a.valid[a.idx]) : addFilesText(a, text, nextId)
  \/ \E id \in 1..MaxFiles : removeFile(id)

SpecAdd == Init /\ [][AddNext]_vars

\* ---- ids as Math.random gives them ----------------------------------------
\* the store operations with ids that Math.random may give again: any id,
\* drawn before or not
IdsNext ==
  \/ \E newFiles \in InputSeqs, id \in 1..MaxFiles : addFiles(newFiles, id)
  \/ \E a \in adds : addFilesBase64(a, readFileAsBase64(a.valid[a.idx]))
  \/ \E a \in adds, id \in 1..MaxFiles :
       addFilesText(a, extractTextFromFile(a.valid[a.idx]), id)
  \/ \E id \in 1..MaxFiles : removeFile(id)
  \/ \E id \in 1..MaxFiles : reGradeFile(id)
  \/ \E id \in 1..MaxFiles, o \in InvokerOutcomes : reGradeReturn(id, o)

SpecIds == Init /\ [][IdsNext]_vars

\* ---- definitions shared by the properties --------------------------------
\* the items of fs with the given id
WithId(fs, id) == {i \in 1..Len(fs) : fs[i].id = id}

\* gradeHomework calls in flight for id: batches awaiting the call for their
\* current item, and reGradeFile calls
InFlight(id) ==
  Cardinality({b \in 1..Len(batches) :
                 batches[b].pc = "invoke" /\ batches[b].eligible[batches[b].idx] = id})
    + regrades[id]

\* the step into this state was the settling of a batch's gradeHomework call
BatchSettled == last.op = "batchReturn"
\* the step into this state ended a batch
BatchEnded == last.op \in {"startBatchGrading", "batchReturn"} /\ last.batch.pc = "done"

\* ---- C1 -------------------------------------------------------------------
\* C1: when gradeHomework fails for item X of a running batch, that step sets
\* only X to Error; every other item keeps status, result and errorMessage,
\* except that the loop goes on: the next eligible item becomes Processing, and
\* the batch ends only after its last eligible item.
C1_FailureIsolation ==
  [][(last'.op = "batchReturn" /\ last'.outcome.kind # "ok") =>
       LET X == last'.id
           t == last'.batch
           goesOn == t.pc = "timer"
       IN /\ Len(files') = Len(files)
          /\ t.pc \in {"timer", "done"}
          /\ t.pc = "done" <=> (t.idx = Len(t.eligible) /\ t.eligible[t.idx] = X)
          /\ goesOn => (t.idx >= 2 /\ t.eligible[t.idx - 1] = X)
          /\ \A i \in 1..Len(files) :
               IF files[i].id = X
               THEN files'[i].status = ERROR
               ELSE IF goesOn /\ files[i].id = t.eligible[t.idx]
               THEN files'[i] = [files[i] EXCEPT !.status = PROCESSING, !.result = undefined,
                                                 !.errorMessage = undefined]
               ELSE files'[i] = files[i]]_vars

\* a batch of three in which the second call failed: the first item is still
\* Completed with its result and the third is being graded
C1_Witness ==
  /\ BatchSettled /\ last.outcome.kind = "error"
  /\ last.batch.pc = "timer" /\ last.batch.idx = 3 /\ Len(last.batch.eligible) = 3
  /\ Len(files) = 3
  /\ files[1].status = COMPLETED /\ files[1].result = "score90"
  /\ files[2].status = ERROR
  /\ files[3].status = PROCESSING

\* ---- C2 -------------------------------------------------------------------
\* C2: when a batch ends that had no removeFile, reGradeFile or other
\* startBatchGrading interleaved, every item of its snapshot is Completed with
\* the result of its call if the call succeeded and Error otherwise, and
\* isGrading is false.
C2_BatchOutcome ==
  (BatchEnded /\ last.batch.clean) =>
    LET t == last.batch IN
    /\ isGrading = FALSE
    /\ Len(t.outcomes) = Len(t.eligible)
    /\ \A k \in 1..Len(t.eligible) :
         /\ WithId(files, t.eligible[k]) # {}
         /\ \A i \in WithId(files, t.eligible[k]) :
              IF t.outcomes[k].kind = "ok"
              THEN files[i].status = COMPLETED /\ files[i].result = t.outcomes[k].value
              ELSE files[i].status = ERROR

\* three items, the second call failed: Completed, Error, Completed
C2_Witness ==
  /\ BatchEnded /\ last.batch.clean
  /\ last.batch.eligible = <<1, 2, 3>>
  /\ [k \in 1..3 |-> last.batch.outcomes[k].kind] = <<"ok", "error", "ok">>
  /\ [i \in 1..Len(files) |-> files[i].status] = <<COMPLETED, ERROR, COMPLETED>>
  /\ isGrading = FALSE

\* ---- C3 -------------------------------------------------------------------
\* C3: isGrading is true exactly when some startBatchGrading call is in
\* progress (started and its last eligible item not yet Completed or Error).
C3_IsGradingTracksBatches == isGrading <=> (batches # <<>>)

\* ---- C4 -------------------------------------------------------------------
\* C4: every item has a status of FileStatus, a result only when Completed, an
\* errorMessage only when Error, and never both.
C4_ResultErrorExclusive ==
  \A i \in 1..Len(files) :
    /\ files[i].status \in FileStatus
    /\ files[i].result # undefined => files[i].status = COMPLETED
    /\ files[i].errorMessage # undefined => files[i].status = ERROR
    /\ ~(files[i].result # undefined /\ files[i].errorMessage # undefined)

\* a Completed item was sent to Processing again by reGradeFile, next to an
\* Error item that carries its message
C4_Witness ==
  /\ last.op = "reGradeReturn" /\ last.outcome.kind = "error"
  /\ \E i \in 1..Len(files) :
       files[i].id = last.id /\ files[i].status = ERROR /\ files[i].errorMessage = "rate limited"
  /\ \E i \in 1..Len(files) : files[i].status = COMPLETED /\ files[i].result = "score90"
  /\ \E i \in 1..Len(files) : files[i].status = PROCESSING

\* ---- C5 -------------------------------------------------------------------
\* C5: startBatchGrading takes as its snapshot the items that are Pending or
\* Error when it is called, never changes the snapshot afterwards, and none of
\* its steps changes an item outside the snapshot.
C5_FixedEligibleSet ==
  [][/\ last'.op = "startBatchGrading" =>
          last'.batch.eligible =
            IdsOf(SelectSeq(files, LAMBDA f : f.status \in {PENDING, ERROR}))
     /\ last'.op = "batchReturn" =>
          \E b \in 1..Len(batches) :
            /\ batches[b].pc = "invoke"
            /\ batches[b].eligible = last'.batch.eligible
            /\ last'.batch.idx \in {batches[b].idx, batches[b].idx + 1}
     /\ last'.op \in {"startBatchGrading", "batchReturn"} =>
          /\ Len(files') = Len(files)
          /\ \A i \in 1..Len(files) :
               (\A k \in 1..Len(last'.batch.eligible) : last'.batch.eligible[k] # files[i].id)
                 => files'[i] = files[i]
     /\ last'.op \notin {"startBatchGrading", "batchReturn"} =>
          /\ Len(batches') = Len(batches)
          /\ \A b \in 1..Len(batches) : batches'[b].eligible = batches[b].eligible]_vars

\* a batch over item 2 alone has ended: item 1, Completed before it started,
\* keeps its result, and item 3, added while it ran, is still Pending
C5_Witness ==
  /\ BatchEnded /\ BatchSettled /\ last.batch.clean
  /\ last.batch.eligible = <<2>>
  /\ Len(files) = 3
  /\ files[1].status = COMPLETED
  /\ files[2].status = ERROR
  /\ files[3].status = PENDING

\* ---- C6 -------------------------------------------------------------------
\* names of the inputs whose name does not start with '.', in input order
RECURSIVE VisibleNames(_)
VisibleNames(newFiles) ==
  IF newFiles = <<>> THEN <<>>
  ELSE LET n == Head(newFiles).name
       IN (IF Len(n) > 0 /\ n[1] = "." THEN <<>> ELSE <<n>>) \o VisibleNames(Tail(newFiles))

StatusSteps ==
  { <<PENDING, PROCESSING>>, <<ERROR, PROCESSING>>, <<COMPLETED, PROCESSING>>,
    <<PROCESSING, COMPLETED>>, <<PROCESSING, ERROR>> }

\* C7: every change of an item's status is one of Pending->Processing,
\* Error->Processing, Completed->Processing, Processing->Completed,
\* Processing->Error.
C7_StatusTransitions ==
  [][\A i \in 1..Len(files), j \in 1..Len(files') :
       files[i].id = files'[j].id =>
         \/ files'[j].status = files[i].status
         \/ <<files[i].status, files'[j].status>> \in StatusSteps]_vars

\* ---- C8 -------------------------------------------------------------------
\* C8: for every id at most one gradeHomework call is in flight.
C8_OneInFlightPerFile == \A id \in 1..MaxFiles : InFlight(id) <= 1

\* ---- C9 -------------------------------------------------------------------
\* C9: when a gradeHomework call of startBatchGrading or reGradeFile fails with
\* an Error carrying message m, the item is Error with errorMessage m and no
\* result; when it succeeds with result r, the item is Completed with result r
\* and no errorMessage.
C9_OutcomeRecorded ==
  last.op \in {"batchReturn", "reGradeReturn"} =>
    \A i \in WithId(files, last.id) :
      /\ last.outcome.kind = "error" =>
           /\ files[i].status = ERROR
           /\ files[i].errorMessage = last.outcome.value
           /\ files[i].result = undefined
      /\ last.outcome.kind = "ok" =>
           /\ files[i].status = COMPLETED
           /\ files[i].result = last.outcome.value
           /\ files[i].errorMessage = undefined

\* the single item of a batch failed with "rate limited"
C9_Witness ==
  /\ BatchSettled /\ last.outcome = [kind |-> "error", value |-> "rate limited"]
  /\ Len(files) = 1
  /\ files[1].id = last.id
  /\ files[1].status = ERROR /\ files[1].errorMessage = "rate limited"

\* ---- C10 ------------------------------------------------------------------
\* C10: no call of startBatchGrading or reGradeFile ends with a rejected
\* promise, whatever gradeHomework throws; a failure shows as the item's Error
\* status and message.
C10_NoFailureEscapes ==
  /\ unhandled = 0
  /\ last.batch.pc # "rejected"
  /\ (last.op \in {"batchReturn", "reGradeReturn"} /\ last.outcome.kind # "ok") =>
       \A i \in WithId(files, last.id) :
         files[i].status = ERROR /\ files[i].errorMessage # undefined

\* gradeHomework threw a value that is no Error during a reGradeFile call
C10_Witness ==
  /\ last.op = "reGradeReturn" /\ last.outcome.kind = "thrown"
  /\ unhandled = 0
  /\ \E i \in WithId(files, last.id) :
       files[i].status = ERROR /\ files[i].errorMessage = "Unknown error"

\* ---- C11 ------------------------------------------------------------------
\* C11: a reGradeFile call on an item of the collection sets that item to
\* Processing when it is made, and to Completed or Error, as gradeHomework
\* turned out, when it returns; neither step changes another item or the
\* length of the collection, and isGrading keeps its value, with or without a
\* batch in progress.
C11_RegradeFrame ==
  [][\A id \in 1..MaxFiles :
       regrades'[id] # regrades[id] =>
         /\ isGrading' = isGrading
         /\ Len(files') = Len(files)
         /\ regrades'[id] > regrades[id] => WithId(files, id) # {}
         /\ \A i \in 1..Len(files) :
              IF files[i].id # id
              THEN files'[i] = files[i]
              ELSE IF regrades'[id] > regrades[id]
              THEN files'[i] = [files[i] EXCEPT !.status = PROCESSING, !.result = undefined,
                                                !.errorMessage = undefined]
              ELSE /\ last'.op = "reGradeReturn" /\ last'.id = id
                   /\ files'[i].status = IF last'.outcome.kind = "ok" THEN COMPLETED ELSE ERROR
                   /\ files'[i].id = id /\ files'[i].name = files[i].name]_vars

\* a reGradeFile call has succeeded while a batch is in progress: its item is
\* Completed, the batch's current item is still Processing, the batch's next
\* item is still Pending, and isGrading is still true
C11_Witness ==
  /\ last.op = "reGradeReturn" /\ last.outcome.kind = "ok"
  /\ isGrading /\ Len(batches) = 1
  /\ Len(files) = 3
  /\ files[1].status = PROCESSING
  /\ files[2].status = PENDING
  /\ files[3].id = last.id /\ files[3].status = COMPLETED /\ files[3].result = "score90"

\* ---- C12 ------------------------------------------------------------------
\* the ids held by addFiles calls in progress, not yet in the collection
IdsInAdds ==
  UNION {{a.curId} \cup {a.processedFiles[k].id : k \in 1..Len(a.processedFiles)} : a \in adds}

\* C12: reGradeFile calls gradeHomework only for an id that is in the
\* collection; the status update that follows a gradeHomework call for an id
\* that has been removed in the meantime changes no item; an id that has left
\* the collection never comes back; and a batch whose current item was removed
\* goes on with its next eligible item, or ends with isGrading false after its
\* last one.
C12_MissingIdNoOp ==
  [][/\ \A id \in 1..MaxFiles :
          /\ regrades'[id] > regrades[id] => WithId(files, id) # {}
          /\ (id < nextId /\ id \notin IdsInAdds /\ WithId(files, id) = {})
               => WithId(files', id) = {}
     /\ (last'.op \in {"batchReturn", "reGradeReturn"} /\ WithId(files, last'.id) = {}) =>
          LET t == last'.batch
              goesOn == last'.op = "batchReturn" /\ t.pc = "timer"
          IN /\ Len(files') = Len(files)
             /\ \A i \in 1..Len(files) :
                  IF goesOn /\ files[i].id = t.eligible[t.idx]
                  THEN files'[i] = [files[i] EXCEPT !.status = PROCESSING, !.result = undefined,
                                                    !.errorMessage = undefined]
                  ELSE files'[i] = files[i]
             /\ last'.op = "batchReturn" =>
                  /\ t.pc \in {"timer", "done"}
                  /\ t.pc = "timer" => (t.idx >= 2 /\ t.eligible[t.idx - 1] = last'.id)
                  /\ t.pc = "done" => (t.idx = Len(t.eligible) /\ isGrading' = FALSE)]_vars

\* the second item of a batch of two was removed while its gradeHomework call
\* was in flight: the call has returned, the item is still gone, the first
\* item keeps its result and the batch has ended with isGrading false
C12_Witness ==
  /\ BatchEnded /\ BatchSettled
  /\ last.batch.eligible = <<1, 2>> /\ last.id = 2
  /\ IdsOf(files) = <<1>>
  /\ files[1].status = COMPLETED
  /\ isGrading = FALSE /\ batches = <<>>

\* ---- C13 ------------------------------------------------------------------
\* C13: removeFile(id) takes exactly the item with that id out of the
\* collection and leaves the other items and their order as they are; with an
\* id that is not in the collection it leaves the collection as it is; a
\* second removeFile(id) changes nothing any more.
C13_RemoveExactlyOne ==
  /\ [](\A id \in 1..MaxFiles :
          LET r == removeFromFiles(files, id)
          IN /\ WithId(files, id) = {} => r = files
             /\ \A k \in WithId(files, id) : r = RemoveAt(files, k)
             /\ removeFromFiles(r, id) = r)
  /\ [][Len(files') < Len(files) =>
          /\ removed'
          /\ \E k \in 1..Len(files) :
               /\ files' = RemoveAt(files, k)
               /\ files' = removeFromFiles(files, files[k].id)]_vars

\* the second of three items has been removed: the first and the third are
\* left, in their order
C13_Witness ==
  /\ removed /\ adds = {}
  /\ nextId = 4
  /\ IdsOf(files) = <<1, 3>>

\* ---- C14 ------------------------------------------------------------------
\* the item carries exactly the fields that go with its status
FieldsFitStatus(f) ==
  /\ f.status = PROCESSING => (f.result = undefined /\ f.errorMessage = undefined)
  /\ f.status = COMPLETED => (f.result # undefined /\ f.errorMessage = undefined)
  /\ f.status = ERROR => (f.result = undefined /\ f.errorMessage # undefined)

\* C14: updateFileStatus replaces status, result and errorMessage together:
\* updateFileStatus(id, Processing) leaves the item without result and
\* errorMessage whatever it had, (id, Completed, r) leaves it with result r and
\* no errorMessage, (id, Error, undefined, m) with errorMessage m and no result;
\* and every step that changes an item leaves it with the fields of its new
\* status and nothing else changed.
C14_StatusUpdateAtomic ==
  /\ [](\A id \in 1..MaxFiles : \A i \in WithId(files, id) :
          /\ updateFileStatus(files, id, PROCESSING, undefined, undefined)[i]
               = [files[i] EXCEPT !.status = PROCESSING, !.result = undefined,
                                  !.errorMessage = undefined]
          /\ \A r \in GradingResults :
               updateFileStatus(files, id, COMPLETED, r, undefined)[i]
                 = [files[i] EXCEPT !.status = COMPLETED, !.result = r,
                                    !.errorMessage = undefined]
          /\ \A m \in ErrorMessages :
               updateFileStatus(files, id, ERROR, undefined, m)[i]
                 = [files[i] EXCEPT !.status = ERROR, !.result = undefined,
                                    !.errorMessage = m])
  /\ [][\A i \in 1..Len(files), j \in 1..Len(files') :
          (files[i].id = files'[j].id /\ files'[j] # files[i]) =>
            /\ FieldsFitStatus(files'[j])
            /\ files'[j] = [files[i] EXCEPT !.status = files'[j].status,
                                            !.result = files'[j].result,
                                            !.errorMessage = files'[j].errorMessage]]_vars

\* reGradeFile was called on a Completed item: it is Processing and its
\* result is gone
C14_Witness ==
  /\ last.op = "reGradeFile" /\ last.before = COMPLETED
  /\ \E i \in WithId(files, last.id) :
       /\ files[i].status = PROCESSING
       /\ files[i].result = undefined /\ files[i].errorMessage = undefined

\* ---- C15 ------------------------------------------------------------------
\* C15: every gradeHomework call of a batch is passed the rubric and the
\* settings that are current when the call is made, also after setRubric or
\* updateSettings was applied while the batch was running.
C15_CurrentConfigPassed ==
  [][\A b \in 1..Len(batches) :
       (batches[b].pc = "timer" /\ batches' = [batches EXCEPT ![b].pc = "invoke"]) =>
         (batches'[b].rubric = rubric /\ batches'[b].settings = settings)]_vars

\* ---- C16 ------------------------------------------------------------------
\* C16: the items of the collection have pairwise distinct ids in every
\* reachable state.
C16_DistinctIds ==
  \A i \in 1..Len(files), j \in 1..Len(files) : i # j => files[i].id # files[j].id

\* ---- C17 ------------------------------------------------------------------
\* C17: after any sequence of provider changes and model selections from the
\* default settings, settings.modelName is the value of an entry of
\* AVAILABLE_MODELS whose provider is settings.modelProvider.
C17_ModelFitsProvider ==
  \E k \in 1..Len(AVAILABLE_MODELS) :
    /\ AVAILABLE_MODELS[k].value = settings.modelName
    /\ AVAILABLE_MODELS[k].provider = settings.modelProvider

\* the provider was changed to the custom one, which selected qwen-plus and
\* its base URL, and changed back to Gemini: the model is a Gemini model again
C17_Witness ==
  /\ settings.modelProvider = GEMINI
  /\ settings.modelName = "gemini-2.5-flash"
  /\ settings.customBaseUrl = DashScopeUrl

IsFresh(f) == f.status = PENDING /\ f.result = undefined /\ f.errorMessage = undefined

\* C19: no step of an addFiles call changes an item of the collection; the
\* items a call holds and the items it appends are Pending and have neither
\* result nor errorMessage.
C19_AddFrame ==
  [][adds' # adds =>
       /\ Len(files') >= Len(files)
       /\ \A i \in 1..Len(files) : files'[i] = files[i]
       /\ \A j \in (Len(files) + 1)..Len(files') : IsFresh(files'[j])
       /\ \A a \in adds' : \A k \in 1..Len(a.processedFiles) : IsFresh(a.processedFiles[k])]_vars

\* a third item was added while a batch over the first two was running: it
\* is Pending behind a Completed and a Processing item
C19_Witness ==
  /\ adds = {}
  /\ Len(batches) = 1 /\ batches[1].clean /\ batches[1].eligible = <<1, 2>>
  /\ batches[1].idx = 2
  /\ Len(files) = 3
  /\ files[1].status = COMPLETED /\ files[1].result = "score90"
  /\ files[2].status = PROCESSING
  /\ IsFresh(files[3])

\* ---- C20 ------------------------------------------------------------------
\* C20: a batch grades its snapshot one item at a time, in collection order:
\* while no other call interferes, the items before its current one are
\* Completed or Error, its current item is Processing, and the items behind
\* it are still Pending or Error; the step that sets the next item to
\* Processing is the step that gives the previous item its Completed or Error
\* update, on the return of that item's gradeHomework call.
C20_Sequential ==
  /\ [](\A b \in 1..Len(batches) :
          batches[b].clean =>
            LET t == batches[b] IN
            /\ t.pc \in {"timer", "invoke"} /\ t.idx \in 1..Len(t.eligible)
            /\ \A k \in 1..Len(t.eligible) :
                 /\ WithId(files, t.eligible[k]) # {}
                 /\ \A i \in WithId(files, t.eligible[k]) :
                      /\ k < t.idx => files[i].status \in {COMPLETED, ERROR}
                      /\ k = t.idx => files[i].status = PROCESSING
                      /\ k > t.idx => files[i].status \in {PENDING, ERROR}
                      /\ \A l \in (k + 1)..Len(t.eligible) :
                           \A j \in WithId(files, t.eligible[l]) : i < j)
  /\ [][\A i \in 1..Len(files) :
          (last'.op = "batchReturn" /\ Len(files') = Len(files)
             /\ files[i].status # PROCESSING /\ files'[i].status = PROCESSING) =>
            LET t == last'.batch IN
            /\ t.pc = "timer" /\ t.idx >= 2
            /\ files[i].id = t.eligible[t.idx]
            /\ last'.id = t.eligible[t.idx - 1]
            /\ \E b \in 1..Len(batches) :
                 /\ batches[b].pc = "invoke" /\ batches[b].idx = t.idx - 1
                 /\ batches[b].eligible = t.eligible
            /\ \A j \in WithId(files', last'.id) :
                 files'[j].status = IF last'.outcome.kind = "ok" THEN COMPLETED ELSE ERROR]_vars

\* a batch of three awaits the gradeHomework call of its second item: the
\* first call failed, the third item has not been touched
C20_Witness ==
  /\ Len(batches) = 1 /\ batches[1].clean
  /\ batches[1].eligible = <<1, 2, 3>>
  /\ batches[1].idx = 2 /\ batches[1].pc = "invoke"
  /\ [i \in 1..Len(files) |-> files[i].status] = <<ERROR, PROCESSING, PENDING>>

\* ---- C21 ------------------------------------------------------------------
\* C21: when every timer fires and every gradeHomework call settles, a state
\* with a batch in progress is followed by the end of a batch, which sets
\* isGrading to false, and an item that is Processing is later Completed,
\* Error or removed: no item stays Processing for ever.
C21_RunToCompletion ==
  /\ (batches # <<>>) ~> (BatchEnded /\ ~isGrading)
  /\ \A id \in 1..MaxFiles :
       (\E i \in WithId(files, id) : files[i].status = PROCESSING)
         ~> (\A i \in WithId(files, id) : files[i].status \in {COMPLETED, ERROR})

\* a batch of two has ended on a call that threw a value that is no Error:
\* isGrading is false and no item is Processing
C21_Witness ==
  /\ BatchEnded /\ BatchSettled /\ last.outcome.kind = "thrown"
  /\ Len(last.batch.eligible) = 2
  /\ ~isGrading /\ batches = <<>>
  /\ Len(files) = 2
  /\ \A i \in 1..Len(files) : files[i].status \in {COMPLETED, ERROR}

\* ---- C22 ------------------------------------------------------------------
\* C22: a batch calls gradeHomework once for each item of its snapshot and a
\* reGradeFile call calls it once, whatever the outcome: the return of a call
\* moves the batch to its next item or ends it, and ends the reGradeFile call.
\* An item that is Completed or Error changes its status only by being set to
\* Processing, in a step in which reGradeFile is called for it or a batch
\* takes it up as its first or next item.
C22_NoAutomaticRetry ==
  [][/\ last'.op = "batchReturn" =>
          \E b \in 1..Len(batches) :
            /\ batches[b].pc = "invoke" /\ batches[b].eligible = last'.batch.eligible
            /\ batches[b].eligible[batches[b].idx] = last'.id
            /\ IF batches[b].idx < Len(batches[b].eligible)
               THEN last'.batch.idx = batches[b].idx + 1 /\ last'.batch.pc = "timer"
               ELSE last'.batch.pc = "done"
     /\ last'.op = "reGradeReturn" =>
          /\ regrades' = [regrades EXCEPT ![last'.id] = @ - 1]
          /\ batches' = batches
     /\ \A i \in 1..Len(files), j \in 1..Len(files') :
          (/\ files[i].id = files'[j].id
           /\ files[i].status \in {COMPLETED, ERROR}
           /\ files'[j].status # files[i].status) =>
            /\ files'[j].status = PROCESSING
            /\ \/ last'.op = "reGradeFile" /\ last'.id = files[i].id
               \/ /\ last'.op \in {"startBatchGrading", "batchReturn"}
                  /\ last'.batch.pc = "timer"
                  /\ last'.batch.eligible[last'.batch.idx] = files[i].id]_vars

\* ---- C23 ------------------------------------------------------------------
\* the fields of an item that are set when it is created
Identity(f) ==
  [id |-> f.id, name |-> f.name, type |-> f.type, size |-> f.size,
   base64Data |-> f.base64Data, textContent |-> f.textContent]

\* C23: no step of startBatchGrading or reGradeFile, and so no
\* updateFileStatus, adds or removes an item, moves an item, or changes an
\* item's id, name, type, size, base64Data or textContent.
C23_IdentityAndOrderKept ==
  [][last'.op \in {"startBatchGrading", "batchReturn", "reGradeFile", "reGradeReturn"} =>
       /\ Len(files') = Len(files)
       /\ \A i \in 1..Len(files) : Identity(files'[i]) = Identity(files[i])]_vars

\* the second of three items was graded by reGradeFile after the first had
\* failed: the three items are in their places with their content
C23_Witness ==
  /\ last.op = "reGradeReturn" /\ last.id = 2
  /\ IdsOf(files) = <<1, 2, 3>>
  /\ files[1].status = ERROR
  /\ files[2].status = COMPLETED
  /\ files[3].status = PENDING
  /\ \A i \in 1..3 : files[i].name = <<"a", ".">> /\ files[i].base64Data = "base64"

\* ---- C24 ------------------------------------------------------------------
\* C24: an operation that resumes after an await writes to the collection as
\* it is then: the status update after a gradeHomework call changes the items
\* it is for and leaves every other item, and the number and order of items,
\* as they are at that moment; the append of addFiles keeps every item of the
\* collection as it is at that moment; removeFile takes one item out of the
\* collection as it is at that moment. So what was added, removed or updated
\* while the operation was awaiting is still so afterwards.
C24_NoLostUpdate ==
  [][/\ last'.op \in {"batchReturn", "reGradeReturn"} =>
          /\ Len(files') = Len(files)
          /\ \A i \in 1..Len(files) :
               \/ files'[i] = files[i]
               \/ files[i].id = last'.id
               \/ /\ last'.op = "batchReturn" /\ last'.batch.pc = "timer"
                  /\ files[i].id = last'.batch.eligible[last'.batch.idx]
     /\ \A a \in adds :
          (a \notin adds' /\ a.pc = "text" /\ a.idx = Len(a.valid)) =>
            /\ Len(files') = Len(files) + Len(a.valid)
            /\ \A i \in 1..Len(files) : files'[i] = files[i]
     /\ Len(files') < Len(files) => \E k \in 1..Len(files) : files' = RemoveAt(files, k)]_vars

\* a batch over items 1 and 2 has written the outcome of its first call and
\* gone on to item 2: item 1, removed while the call was in flight, is still
\* gone, and item 3, added in the meantime, is still there
C24_Witness ==
  /\ BatchSettled /\ last.id = 1
  /\ last.batch.eligible = <<1, 2>> /\ last.batch.idx = 2 /\ last.batch.pc = "timer"
  /\ IdsOf(files) = <<2, 3>>
  /\ files[1].status = PROCESSING
  /\ IsFresh(files[2])

\* ---- C25 ------------------------------------------------------------------
\* grading attempts for id between their Processing update and their
\* Completed/Error update: batches whose current item it is, and reGradeFile
\* calls
Attempts(id) ==
  Cardinality({b \in 1..Len(batches) : batches[b].eligible[batches[b].idx] = id})
    + regrades[id]

\* C25: an item is Processing exactly when at least one grading attempt for
\* it is between its Processing update and its Completed/Error update.
C25_ProcessingIffInFlight ==
  \A i \in 1..Len(files) : files[i].status = PROCESSING <=> Attempts(files[i].id) >= 1

\* ---- C26 ------------------------------------------------------------------
\* C26: when startBatchGrading and reGradeFile are called only by buttons
\* that are not disabled, at most one batch is in progress at any time, and
\* every startBatchGrading call finds at least one Pending item and starts a
\* batch over a non-empty snapshot.
C26_GuardedStart ==
  /\ [](Len(batches) <= 1)
  /\ [][last'.op = "startBatchGrading" =>
          /\ batches = <<>> /\ ~isGrading
          /\ \E i \in 1..Len(files) : files[i].status = PENDING
          /\ last'.batch.pc = "timer" /\ Len(batches') = 1 /\ isGrading']_vars

\* a batch over the first two items has just been started, next to a
\* reGradeFile call in flight for the third item
C26_Witness ==
  /\ last.op = "startBatchGrading"
  /\ Len(batches) = 1 /\ isGrading
  /\ last.batch.eligible = <<1, 2>>
  /\ Len(files) = 3
  /\ files[1].status = PROCESSING /\ files[2].status = PENDING
  /\ files[3].status = PROCESSING /\ regrades[3] = 1

====
